---------------------------- MODULE Spec2Model ----------------------------
(***************************************************************************)
(* Sitemap traversal of the two extractor scripts:                         *)
(*   src/app.py            crawler       (deep policy)                     *)
(*   src/streamlit_app.py  fast_crawler  (fast policy)                     *)
(*                                                                         *)
(* A Python str is a sequence of one-character strings, so that lower(),   *)
(* strip(), endswith(), split(), `in' and urlparse() are computed          *)
(* character by character.  Python's None is the empty tuple and a         *)
(* present value v is the one-element tuple <<v>>.                         *)
(***************************************************************************)
EXTENDS Integers, Sequences, FiniteSets, TLC

(***************************************************************************)
(* str primitives                                                          *)
(***************************************************************************)

None == <<>>

Some(v) == <<v>>

\* F(x) with x evaluated once: TLC evaluates an operator's argument anew at
\* each use of the parameter when it evaluates ENABLED.
Apply(F(_), x) == CHOOSE r \in {F(v) : v \in {x}} : TRUE

\* F(x, y) with x and y evaluated once
Apply2(F(_, _), x, y) == CHOOSE r \in {F(v, w) : v \in {x}, w \in {y}} : TRUE

UpperLetters ==
    <<"A", "B", "C", "D", "E", "F", "G", "H", "I", "J", "K", "L", "M",
      "N", "O", "P", "Q", "R", "S", "T", "U", "V", "W", "X", "Y", "Z">>

LowerLetters ==
    <<"a", "b", "c", "d", "e", "f", "g", "h", "i", "j", "k", "l", "m",
      "n", "o", "p", "q", "r", "s", "t", "u", "v", "w", "x", "y", "z">>

Digits == <<"0", "1", "2", "3", "4", "5", "6", "7", "8", "9">>

\* The characters of the model's strings in code point order (ASCII).
CodePointOrder ==
    <<"\t", "\n", "\r", " ", "#", "%", "+", "-", ".", "/">> \o Digits \o
    <<":", ";", "?">> \o UpperLetters \o <<"[", "]", "_">> \o LowerLetters \o <<"{", "}">>

Range(s) == {s[i] : i \in 1..Len(s)}

Ord(c) == CHOOSE i \in 1..Len(CodePointOrder) : CodePointOrder[i] = c

\* str.lower() on one character
LowerChar(c) ==
    IF c \in Range(UpperLetters)
    THEN LowerLetters[CHOOSE i \in 1..Len(UpperLetters) : UpperLetters[i] = c]
    ELSE c

\* str.lower()
Lower(s) == [i \in 1..Len(s) |-> LowerChar(s[i])] \o <<>>

\* s[a-1:b] of Python, 1-based and inclusive here
Slice(s, a, b) == IF a > b THEN <<>> ELSE SubSeq(s, a, b)

\* s.startswith(p)
StartsWith(s, p) == Len(s) >= Len(p) /\ Slice(s, 1, Len(p)) = p

\* s.endswith(p)
EndsWith(s, p) == Len(s) >= Len(p) /\ Slice(s, Len(s) - Len(p) + 1, Len(s)) = p

\* p in s
Contains(s, p) ==
    \E i \in 1..(Len(s) - Len(p) + 1) : Slice(s, i, i + Len(p) - 1) = p

\* s.find(c, start): the first index >= start holding c, 0 when there is none
\* (1-based; Python's -1 is 0 here)
Find(s, c, start) ==
    IF \E i \in start..Len(s) : s[i] = c
    THEN CHOOSE i \in start..Len(s) :
            s[i] = c /\ \A j \in start..(i - 1) : s[j] # c
    ELSE 0

\* s.rfind(c), 0 when there is none
RFind(s, c) ==
    IF \E i \in 1..Len(s) : s[i] = c
    THEN CHOOSE i \in 1..Len(s) :
            s[i] = c /\ \A j \in (i + 1)..Len(s) : s[j] # c
    ELSE 0

Whitespace == {" ", "\t", "\n", "\r"}

\* s.strip()
Strip(s) ==
    IF \A i \in 1..Len(s) : s[i] \in Whitespace
    THEN <<>>
    ELSE LET a == CHOOSE i \in 1..Len(s) :
                    s[i] \notin Whitespace /\ \A j \in 1..(i - 1) : s[j] \in Whitespace
             b == CHOOSE i \in 1..Len(s) :
                    s[i] \notin Whitespace /\ \A j \in (i + 1)..Len(s) : s[j] \in Whitespace
         IN  Slice(s, a, b)

RECURSIVE Split(_, _)
\* s.split(c)
Split(s, c) ==
    Apply(LAMBDA i : IF i = 0 THEN <<s>>
                     ELSE <<Slice(s, 1, i - 1)>> \o Apply2(Split, Slice(s, i + 1, Len(s)), c),
          Find(s, c, 1))

RECURSIVE Join(_, _)
\* c.join(parts)
Join(parts, c) ==
    IF parts = <<>> THEN <<>>
    ELSE IF Len(parts) = 1 THEN parts[1]
    ELSE parts[1] \o <<c>> \o Apply2(Join, Tail(parts), c)

\* s.split(c)[-1]: what follows the last c, the whole of s when it holds none
SplitLast(s, c) == SubSeq(s, RFind(s, c) + 1, Len(s))

\* a < b on str: lexicographic by code point, a proper prefix first
StrLess(a, b) ==
    \E k \in 1..(Len(b)) :
        /\ k <= Len(a) + 1
        /\ \A j \in 1..(k - 1) : a[j] = b[j]
        /\ \/ k = Len(a) + 1
           \/ k <= Len(a) /\ Ord(a[k]) < Ord(b[k])

RECURSIVE sorted_descending(_)
\* Mutant of sorted: the greatest first
sorted_descending(S) ==
    IF S = {} THEN <<>>
    ELSE LET m == CHOOSE x \in S : \A y \in S \ {x} : StrLess(y, x)
         IN  <<m>> \o sorted_descending(S \ {m})

RECURSIVE sorted(_)
\* sorted(list(S)) of a set of str
sorted(S) ==
    IF S = {} THEN <<>>
    ELSE LET m == CHOOSE x \in S : \A y \in S \ {x} : StrLess(x, y)
         IN  <<m>> \o sorted(S \ {m})

(***************************************************************************)
(* urllib.parse.urlparse, as the scripts use it: .netloc and .path         *)
(***************************************************************************)

SchemeChars == Range(UpperLetters) \cup Range(LowerLetters) \cup Range(Digits)
                  \cup {"+", "-", "."}

IsAlpha(c) == c \in Range(UpperLetters) \cup Range(LowerLetters)

\* _WHATWG_C0_CONTROL_OR_SPACE, of the characters a url is made of here
C0ControlOrSpace == {" ", "\t", "\n", "\r"}

\* _UNSAFE_URL_BYTES_TO_REMOVE
UnsafeUrlBytes == {"\t", "\r", "\n"}

\* s.lstrip(_WHATWG_C0_CONTROL_OR_SPACE)
LStripC0(s) ==
    IF \A i \in 1..Len(s) : s[i] \in C0ControlOrSpace
    THEN <<>>
    ELSE Slice(s, CHOOSE i \in 1..Len(s) :
                      /\ s[i] \notin C0ControlOrSpace
                      /\ \A j \in 1..(i - 1) : s[j] \in C0ControlOrSpace,
               Len(s))

Safe(c) == c \notin UnsafeUrlBytes

\* for b in _UNSAFE_URL_BYTES_TO_REMOVE: url = url.replace(b, "")
RemoveUnsafe(s) == SelectSeq(s, Safe)

\* urlsplit's first lines: the url it goes on to split
Sanitized(url) == Apply(RemoveUnsafe, LStripC0(url))

\* url.find(':') closes a scheme: a letter, then letters, digits, + - .
HasScheme(u) ==
    /\ Find(u, ":", 1) > 1
    /\ IsAlpha(u[1])
    /\ \A j \in 1..(Find(u, ":", 1) - 1) : u[j] \in SchemeChars

\* scheme, url = url[:i].lower(), url[i+1:] : the url that is left
SchemeTakenOff(u) ==
    IF HasScheme(u) THEN Slice(u, Find(u, ":", 1) + 1, Len(u)) ELSE u

\* urlsplit: the url with its scheme and the colon after it taken off
AfterScheme(url) == Apply(SchemeTakenOff, Sanitized(url))

\* _splitnetloc: the index of the first of / ? # at or after start, Len+1 when none
NetlocEnd(u, start) ==
    LET hits == {Find(u, c, start) : c \in {"/", "?", "#"}} \ {0}
    IN  IF hits = {} THEN Len(u) + 1
        ELSE CHOOSE d \in hits : \A e \in hits : d <= e

\* urlsplit after the scheme: the netloc of what is left
NetlocOf(u) ==
    IF StartsWith(u, <<"/", "/">>)
    THEN Slice(u, 3, NetlocEnd(u, 3) - 1)
    ELSE <<>>

\* scheme, url = url[:i].lower(), url[i+1:] : the scheme
SchemeTaken(u) ==
    IF HasScheme(u) THEN Lower(Slice(u, 1, Find(u, ":", 1) - 1)) ELSE <<>>

\* urlsplit(url).scheme
SchemeOf(url) == Apply(SchemeTaken, Sanitized(url))

\* s.split(c, 1)[0]
Before(s, c) ==
    LET i == Find(s, c, 1) IN IF i = 0 THEN s ELSE Slice(s, 1, i - 1)

\* urlsplit: the netloc it splits off, before it is checked
SplitNetloc(url) == Apply(NetlocOf, AfterScheme(url))

HexDigits ==
    Range(Digits) \cup {"A", "B", "C", "D", "E", "F", "a", "b", "c", "d", "e", "f"}

\* int(c) of a decimal digit
DigitValue(c) == (CHOOSE i \in 1..Len(Digits) : Digits[i] = c) - 1

RECURSIVE DecimalValue(_)
\* int(s, 10) of a str of decimal digits
DecimalValue(s) ==
    IF s = <<>> THEN 0
    ELSE 10 * DecimalValue(Slice(s, 1, Len(s) - 1)) + DigitValue(s[Len(s)])

\* IPv4Address._parse_octet does not raise
OctetOk(o) ==
    /\ o # <<>>
    /\ \A i \in 1..Len(o) : o[i] \in Range(Digits)
    /\ Len(o) <= 3
    /\ (o = <<"0">> \/ o[1] # "0")
    /\ DecimalValue(o) <= 255

\* IPv4Address._ip_int_from_string does not raise
IPv4Ok(s) ==
    /\ s # <<>>
    /\ Len(Split(s, ".")) = 4
    /\ \A i \in 1..4 : OctetOk(Split(s, ".")[i])

\* IPv6Address._parse_hextet does not raise
HextetOk(h) ==
    /\ h # <<>>
    /\ Len(h) <= 4
    /\ \A i \in 1..Len(h) : h[i] \in HexDigits

\* The places strictly inside parts that hold an empty part: the '::'
SkipPlaces(parts) == {i \in 2..(Len(parts) - 1) : parts[i] = <<>>}

\* parts_hi: the parts before the '::' at place k that are parsed; an empty
\* first part is not parsed, and must then be the only one
PartsHi(parts, k) == IF parts[1] = <<>> THEN k - 2 ELSE k - 1

\* parts_lo: the parts after the '::' at place k that are parsed
PartsLo(parts, k) == IF parts[Len(parts)] = <<>> THEN Len(parts) - k - 1 ELSE Len(parts) - k

\* The parts of an address with one '::', at place k
SkippedPartsOk(parts, k) ==
    /\ parts[1] = <<>> => PartsHi(parts, k) = 0
    /\ parts[Len(parts)] = <<>> => PartsLo(parts, k) = 0
    /\ 8 - (PartsHi(parts, k) + PartsLo(parts, k)) >= 1
    /\ \A i \in 1..PartsHi(parts, k) : HextetOk(parts[i])
    /\ \A i \in (Len(parts) - PartsLo(parts, k) + 1)..Len(parts) : HextetOk(parts[i])

\* IPv6Address._ip_int_from_string from `_max_parts' on: the colon-separated
\* parts, an IPv4 suffix already replaced by its two hextets
PartsOk(parts) ==
    /\ Len(parts) <= 9
    /\ Cardinality(SkipPlaces(parts)) <= 1
    /\ IF SkipPlaces(parts) # {}
       THEN SkippedPartsOk(parts, CHOOSE k \in SkipPlaces(parts) : TRUE)
       ELSE /\ Len(parts) = 8
            /\ \A i \in 1..8 : HextetOk(parts[i])

\* the address parsed after its split at the colons
ColonPartsOk(parts) ==
    /\ Len(parts) >= 3
    /\ IF "." \in Range(parts[Len(parts)])
       THEN /\ IPv4Ok(parts[Len(parts)])
            /\ PartsOk(Slice(parts, 1, Len(parts) - 1) \o <<<<"0">>, <<"0">>>>)
       ELSE PartsOk(parts)

\* IPv6Address._ip_int_from_string does not raise
IPv6Ok(s) == s # <<>> /\ Apply(ColonPartsOk, Split(s, ":"))

\* IPv6Address(address) does not raise: _split_scope_id, then the address
IPv6AddressOk(h) ==
    IF "%" \notin Range(h) THEN IPv6Ok(h)
    ELSE /\ Find(h, "%", 1) < Len(h)
         /\ "%" \notin Range(Slice(h, Find(h, "%", 1) + 1, Len(h)))
         /\ IPv6Ok(Slice(h, 1, Find(h, "%", 1) - 1))

\* re.match(r"\Av[a-fA-F0-9]+\..+\Z", hostname)
IPvFutureOk(h) ==
    /\ h # <<>>
    /\ h[1] = "v"
    /\ \E i \in 3..(Len(h) - 1) :
          /\ h[i] = "."
          /\ \A j \in 2..(i - 1) : h[j] \in HexDigits

\* _check_bracketed_host does not raise; ip_address gives an IPv6Address
\* only for what IPv6Address accepts, and an IPv4Address raises here
BracketedHostOk(h) ==
    IF h # <<>> /\ h[1] = "v" THEN IPvFutureOk(h) ELSE IPv6AddressOk(h)

\* netloc.partition('[')[2].partition(']')[0]
BracketedHost(netloc) ==
    Before(Slice(netloc, Find(netloc, "[", 1) + 1, Len(netloc)), "]")

\* urlsplit raises ValueError on this netloc: one bracket without the
\* other, or a bracketed host that is no IPv6 or IPvFuture address
NetlocRaises(netloc) ==
    \/ "[" \in Range(netloc) /\ "]" \notin Range(netloc)
    \/ "]" \in Range(netloc) /\ "[" \notin Range(netloc)
    \/ /\ "[" \in Range(netloc)
       /\ "]" \in Range(netloc)
       /\ ~BracketedHostOk(BracketedHost(netloc))

\* urlparse(url) raises ValueError
urlparse_raises(url) == Apply(NetlocRaises, SplitNetloc(url))

\* What stands for the ValueError raised where a str is returned otherwise;
\* no str is equal to it
ValueError == <<"ValueError">>

\* urlparse(url).netloc
urlparse_netloc(url) ==
    IF urlparse_raises(url) THEN ValueError ELSE SplitNetloc(url)

BeforeFragment(s) == Before(s, "#")

BeforeQuery(s) == Before(s, "?")

\* urlsplit after the scheme: what follows the netloc
AfterNetloc(u) ==
    IF StartsWith(u, <<"/", "/">>)
    THEN Slice(u, NetlocEnd(u, 3), Len(u))
    ELSE u

\* url.split('#', 1)[0], then url.split('?', 1)[0]
PathOf(rest) == Apply(BeforeQuery, Apply(BeforeFragment, rest))

\* urlsplit(url).path
SplitPath(url) == Apply(PathOf, Apply(AfterNetloc, AfterScheme(url)))

\* urllib.parse.uses_params
UsesParams ==
    {<<>>,
     <<"f", "t", "p">>,
     <<"h", "d", "l">>,
     <<"p", "r", "o", "s", "p", "e", "r", "o">>,
     <<"h", "t", "t", "p">>,
     <<"i", "m", "a", "p">>,
     <<"h", "t", "t", "p", "s">>,
     <<"s", "h", "t", "t", "p">>,
     <<"r", "t", "s", "p">>,
     <<"r", "t", "s", "p", "s">>,
     <<"r", "t", "s", "p", "u">>,
     <<"s", "i", "p">>,
     <<"s", "i", "p", "s">>,
     <<"m", "m", "s">>,
     <<"s", "f", "t", "p">>,
     <<"t", "e", "l">>}

\* _splitparams(url)[0]: the path up to the first ';' of its last segment
WithoutParams(path) ==
    IF "/" \in Range(path)
    THEN IF Find(path, ";", RFind(path, "/")) = 0 THEN path
         ELSE Slice(path, 1, Find(path, ";", RFind(path, "/")) - 1)
    ELSE Slice(path, 1, Find(path, ";", 1) - 1)

\* if scheme in uses_params and ';' in url: url, params = _splitparams(url)
ParsedPath(scheme, path) ==
    IF scheme \in UsesParams /\ ";" \in Range(path) THEN WithoutParams(path) ELSE path

\* urlparse(url).path
urlparse_path(url) ==
    IF urlparse_raises(url) THEN ValueError
    ELSE Apply2(ParsedPath, SchemeOf(url), SplitPath(url))

(***************************************************************************)
(* Classifiers                                                             *)
(***************************************************************************)

DotXml == <<".", "x", "m", "l">>

DotXmlGz == <<".", "x", "m", "l", ".", "g", "z">>

SitemapWord == <<"s", "i", "t", "e", "m", "a", "p">>

\* u.endswith('.xml') or u.endswith('.xml.gz') or 'sitemap' in u
LooksLikeSitemap(u) ==
    EndsWith(u, DotXml) \/ EndsWith(u, DotXmlGz) \/ Contains(u, SitemapWord)

\* Mutant of is_sitemap_url: the tests are made on the url as given
is_sitemap_url_as_given(url) == LooksLikeSitemap(url)

\* app.py is_sitemap_url
is_sitemap_url(url) == Apply(LooksLikeSitemap, Lower(url))

\* Mutant of is_homepage: only the path "/" counts
is_homepage_slash_only(url) ==
    IF urlparse_raises(url) THEN ValueError ELSE urlparse_path(url) = <<"/">>

\* streamlit_app.py is_homepage: True, False, or the ValueError of urlparse
is_homepage(url) ==
    IF urlparse_raises(url) THEN ValueError ELSE urlparse_path(url) \in {<<>>, <<"/">>}

(***************************************************************************)
(* ElementTree elements and the tag extractor                              *)
(***************************************************************************)

\* tag.split('}')[-1]
AfterBrace(tag) == SplitLast(tag, "}")

\* child.tag.split('}')[-1]
LocalName(tag) == Apply(AfterBrace, tag)

LocName == <<"l", "o", "c">>

SitemapName == <<"s", "i", "t", "e", "m", "a", "p">>

UrlName == <<"u", "r", "l">>

\* sub.text.strip() if sub.text else None
LocText(sub) ==
    IF sub.text # None /\ sub.text[1] # <<>>
    THEN Some(Strip(sub.text[1]))
    ELSE None

\* The <loc> scan of one child element: None, or Some(text) of the first
\* sub-element whose local name is loc (text stripped; None when the element
\* has no text).
FirstLoc(subs) ==
    LET locs == {i \in 1..Len(subs) : LocalName(subs[i].tag) = LocName}
    IN  IF locs = {} THEN None
        ELSE Apply(LocText, subs[CHOOSE i \in locs : \A j \in locs : i <= j])

findLoc(child) == Apply(FirstLoc, child.children)

\* Mutant of NotLoc: the test is `loc is None'
NotLocNoneOnly(loc) == loc = None

\* `not loc': loc is None or the empty str
NotLoc(loc) == loc = None \/ loc = Some(<<>>)

(***************************************************************************)
(* fetch_and_parse                                                         *)
(*                                                                         *)
(* An HTTP exchange is a record: error (requests.get raised), status_code, *)
(* content_type (the Content-Type header), gzipped (the body is a gzip     *)
(* stream) and xml (None when the payload is not well-formed XML, else     *)
(* Some(the root's child elements)).                                       *)
(***************************************************************************)

DotGz == <<".", "g", "z">>

\* None, or Some(children of the root element)
fetch_and_parse(url, response) ==
    IF response.error THEN None
    ELSE IF response.status_code # 200 THEN None
    ELSE IF EndsWith(url, DotGz) \/ response.content_type = "application/x-gzip"
         THEN IF response.gzipped THEN response.xml ELSE None
         ELSE IF response.gzipped THEN None ELSE response.xml

(***************************************************************************)
(* urllib.parse.urljoin, as the scripts use it: the reference is a path    *)
(* ("/robots.txt" or "sitemap.xml") with no scheme, netloc, query or       *)
(* fragment of its own                                                     *)
(***************************************************************************)

\* urllib.parse.uses_relative; every scheme of it is in uses_netloc as well
UsesRelative ==
    {<<>>,
     <<"f", "t", "p">>,
     <<"h", "t", "t", "p">>,
     <<"g", "o", "p", "h", "e", "r">>,
     <<"n", "n", "t", "p">>,
     <<"i", "m", "a", "p">>,
     <<"w", "a", "i", "s">>,
     <<"f", "i", "l", "e">>,
     <<"h", "t", "t", "p", "s">>,
     <<"s", "h", "t", "t", "p">>,
     <<"m", "m", "s">>,
     <<"p", "r", "o", "s", "p", "e", "r", "o">>,
     <<"r", "t", "s", "p">>,
     <<"r", "t", "s", "p", "s">>,
     <<"r", "t", "s", "p", "u">>,
     <<"s", "f", "t", "p">>,
     <<"s", "v", "n">>,
     <<"s", "v", "n", "+", "s", "s", "h">>,
     <<"w", "s">>,
     <<"w", "s", "s">>}

\* if base_parts[-1] != '': del base_parts[-1]
DirectoryParts(parts) ==
    IF parts[Len(parts)] # <<>> THEN SubSeq(parts, 1, Len(parts) - 1) ELSE parts

\* base_parts: bpath.split('/') without a last item that is not a directory
BaseParts(bpath) == Apply(DirectoryParts, Split(bpath, "/"))

\* segments[1:-1] = filter(None, segments[1:-1])
DropEmptyInside(segments) ==
    IF Len(segments) <= 2 THEN segments
    ELSE <<segments[1]>>
         \o SelectSeq(SubSeq(segments, 2, Len(segments) - 1), LAMBDA x : x # <<>>)
         \o <<segments[Len(segments)]>>

Dot == <<".">>

DotDot == <<".", ".">>

RECURSIVE ResolveDots(_, _)
\* the loop over the segments: resolved is resolved_path so far
ResolveDots(segments, resolved) ==
    IF segments = <<>> THEN resolved
    ELSE IF Head(segments) = DotDot
         THEN Apply2(ResolveDots, Tail(segments),
                     IF resolved = <<>> THEN resolved
                     ELSE SubSeq(resolved, 1, Len(resolved) - 1))
    ELSE IF Head(segments) = Dot THEN Apply2(ResolveDots, Tail(segments), resolved)
    ELSE Apply2(ResolveDots, Tail(segments), Append(resolved, Head(segments)))

\* The segments of the joined path
Segments(bpath, path) ==
    IF StartsWith(path, <<"/">>)
    THEN Split(path, "/")
    ELSE Apply(DropEmptyInside, BaseParts(bpath) \o Split(path, "/"))

\* resolved_path, with the '' appended after a last segment that is a dot
\* directory
ResolvedPath(segments) ==
    IF segments[Len(segments)] \in {Dot, DotDot}
    THEN Append(ResolveDots(segments, <<>>), <<>>)
    ELSE ResolveDots(segments, <<>>)

\* joined or '/'
OrSlash(joined) == IF joined = <<>> THEN <<"/">> ELSE joined

\* '/'.join(resolved_path) or '/'
JoinedPath(bpath, path) ==
    Apply(OrSlash, Join(Apply(ResolvedPath, Segments(bpath, path)), "/"))

\* if url and url[:1] != '/': url = '/' + url
Rooted(path) ==
    IF path # <<>> /\ ~StartsWith(path, <<"/">>) THEN <<"/">> \o path ELSE path

\* urlunparse((scheme, netloc, path, '', '', '')) for a scheme of uses_netloc
urlunparse(parts) ==
    (IF parts.scheme # <<>> THEN parts.scheme \o <<":">> ELSE <<>>)
    \o (IF \/ parts.netloc # <<>>
            \/ (parts.scheme # <<>> /\ ~StartsWith(parts.path, <<"/", "/">>))
         THEN <<"/", "/">> \o parts.netloc \o Rooted(parts.path)
         ELSE parts.path)

\* The joined URL for a base that is not empty
JoinOnto(base, path) ==
    IF SchemeOf(base) \notin UsesRelative THEN path
    ELSE Apply(urlunparse,
               [scheme |-> SchemeOf(base),
                netloc |-> urlparse_netloc(base),
                path   |-> JoinedPath(Apply(urlparse_path, base), path)])

\* urljoin(base, path): the joined URL, or the ValueError of urlparse(base)
urljoin(base, path) ==
    IF base = <<>> THEN path
    ELSE IF urlparse_raises(base) THEN ValueError
    ELSE Apply2(JoinOnto, base, path)

(***************************************************************************)
(* Seed resolution: get_sitemap_from_robots and the fallback of the UI     *)
(* entry                                                                   *)
(*                                                                         *)
(* The exchange for robots.txt is a record: error (requests.get raised),   *)
(* status_code and text (the body, a str).                                 *)
(***************************************************************************)

\* The line boundaries of str.splitlines() among the model's characters
\* ("\r\n" is one boundary)
LineBreaks == {"\n", "\r"}

\* The index of the first line boundary of text, 0 when it has none
FirstBreak(text) ==
    IF \A i \in 1..Len(text) : text[i] \notin LineBreaks THEN 0
    ELSE CHOOSE i \in 1..Len(text) :
            text[i] \in LineBreaks /\ \A j \in 1..(i - 1) : text[j] \notin LineBreaks

\* The index the boundary at i ends at
BreakEnd(text, i) ==
    IF text[i] = "\r" /\ i < Len(text) /\ text[i + 1] = "\n" THEN i + 1 ELSE i

RECURSIVE splitlines(_)
\* text.splitlines()
splitlines(text) ==
    IF text = <<>> THEN <<>>
    ELSE Apply(LAMBDA i :
                  IF i = 0 THEN <<text>>
                  ELSE <<Slice(text, 1, i - 1)>>
                       \o Apply(splitlines, Slice(text, BreakEnd(text, i) + 1, Len(text))),
               FirstBreak(text))

SitemapPrefix == <<"s", "i", "t", "e", "m", "a", "p", ":">>

\* line.lower().strip().startswith('sitemap:')
IsDirective(line) == StartsWith(Apply(Strip, Lower(line)), SitemapPrefix)

\* line.split(':', 1)[1].strip()
DirectiveValue(line) == Apply(Strip, Slice(line, Find(line, ":", 1) + 1, Len(line)))

RobotsPath == <<"/", "r", "o", "b", "o", "t", "s", ".", "t", "x", "t">>

\* robots_url = urljoin(domain_url, "/robots.txt")
robots_url_of(domain_url) == urljoin(domain_url, RobotsPath)

RECURSIVE Directives(_)
\* the for loop over the lines: the values appended to sitemaps, in order
Directives(lines) ==
    IF lines = <<>> THEN <<>>
    ELSE (IF IsDirective(Head(lines)) THEN <<DirectiveValue(Head(lines))>> ELSE <<>>)
         \o Apply(Directives, Tail(lines))

\* get_sitemap_from_robots, given the exchange requests.get(robots_url) has
get_sitemap_from_robots(response) ==
    IF response.error THEN <<>>
    ELSE IF response.status_code # 200 THEN <<>>
    ELSE Apply(Directives, splitlines(response.text))

HttpWord == <<"h", "t", "t", "p">>

HttpsPrefix == <<"h", "t", "t", "p", "s", ":", "/", "/">>

\* if not url_input.startswith("http"): url_input = "https://" + url_input
WithScheme(typed) ==
    IF StartsWith(typed, HttpWord) THEN typed ELSE HttpsPrefix \o typed

SitemapXml == <<"s", "i", "t", "e", "m", "a", "p", ".", "x", "m", "l">>

\* fallback = urljoin(url_input, "sitemap.xml")
Fallback(base) == urljoin(base, SitemapXml)

\* if not initial_sitemaps: initial_sitemaps = [fallback]
OrFallback(found, base) == IF found = <<>> THEN <<Fallback(base)>> ELSE found

\* initial_sitemaps as the UI entry hands it to the traversal
initial_sitemaps(base, response) ==
    Apply2(OrFallback, get_sitemap_from_robots(response), base)

(***************************************************************************)
(* The web the runs are checked on                                         *)
(***************************************************************************)

IndexUrl ==
    <<"h", "t", "t", "p", "s", ":", "/", "/", "a", ".", "c", "o", "m", "/",
      "s", "i", "t", "e", "m", "a", "p", "_", "i", "n", "d", "e", "x", ".", "x", "m", "l">>

Sitemap1Url ==
    <<"h", "t", "t", "p", "s", ":", "/", "/", "a", ".", "c", "o", "m", "/",
      "s", "i", "t", "e", "m", "a", "p", "1", ".", "x", "m", "l">>

\* is_sitemap_url only through lower(); fetched as gzip (ends with .gz)
ArchiveUrl ==
    <<"h", "t", "t", "p", "s", ":", "/", "/", "b", ".", "c", "o", "m", "/",
      "M", "a", "p", ".", "X", "M", "L", ".", "g", "z">>

HomeUrl == <<"h", "t", "t", "p", "s", ":", "/", "/", "a", ".", "c", "o", "m", "/">>

PostUrl ==
    <<"h", "t", "t", "p", "s", ":", "/", "/", "b", "l", "o", "g", ".", "a", ".", "c", "o", "m", "/",
      "p", "o", "s", "t">>

ArchiveHomeUrl == <<"h", "t", "t", "p", "s", ":", "/", "/", "b", ".", "c", "o", "m", "/">>

\* no netloc
RelativeUrl == <<"/", "p", "a", "g", "e">>

\* a homepage whose query holds the word sitemap, in mixed case
QueryUrl ==
    <<"h", "t", "t", "p", "s", ":", "/", "/", "c", ".", "c", "o", "m", "/",
      "?", "S", "i", "t", "e", "M", "a", "p">>

\* a homepage with ;parameters after its path
ParamsUrl ==
    <<"h", "t", "t", "p", "s", ":", "/", "/", "d", ".", "c", "o", "m", "/", ";", "x">>

\* a homepage on an IPv6 host
Ipv6Url == <<"h", "t", "t", "p", ":", "/", "/", "[", ":", ":", "1", "]", "/">>

\* a netloc with an opening bracket and no closing one: urlparse raises
BracketUrl == <<"h", "t", "t", "p", ":", "/", "/", "[", "a", "/">>

\* element text with surrounding whitespace; a homepage with an empty path
PaddedText ==
    <<"\n", " ", " ", "h", "t", "t", "p", "s", ":", "/", "/", "a", ".", "c", "o", "m", " ", "\n">>

Namespace ==
    <<"{", "h", "t", "t", "p", ":", "/", "/", "w", "w", "w", ".", "s", "i", "t", "e", "m", "a", "p", "s",
      ".", "o", "r", "g", "/", "s", "c", "h", "e", "m", "a", "s", "/", "s", "i", "t", "e", "m", "a", "p",
      "/", "0", ".", "9", "}">>

LastmodName == <<"l", "a", "s", "t", "m", "o", "d">>

ImageName == <<"i", "m", "a", "g", "e">>

Element(tag, children) == [tag |-> tag, children |-> children]

Leaf(tag, text) == [tag |-> tag, text |-> text]

LocElement(text) == Leaf(Namespace \o LocName, Some(text))

\* <sitemap><loc>u</loc></sitemap>
SitemapEntry(u) == Element(Namespace \o SitemapName, <<LocElement(u)>>)

\* <url><loc>u</loc></url>
UrlEntry(u) == Element(Namespace \o UrlName, <<LocElement(u)>>)

\* The sitemap index of the scenario
IndexDoc == <<SitemapEntry(Sitemap1Url)>>

\* The urlset of the scenario
UrlsetDoc == <<UrlEntry(HomeUrl), UrlEntry(PostUrl)>>

\* An index that refers back, twice to one document, and to the archive
CycleDoc ==
    <<SitemapEntry(IndexUrl), SitemapEntry(Sitemap1Url), SitemapEntry(Sitemap1Url),
      SitemapEntry(ArchiveUrl)>>

\* A urlset with sitemaps under <url>, entries without a loc and other tags
MixedDoc ==
    <<UrlEntry(Sitemap1Url),
      UrlEntry(ArchiveUrl),
      UrlEntry(RelativeUrl),
      UrlEntry(QueryUrl),
      Element(Namespace \o UrlName, <<Leaf(Namespace \o LastmodName, Some(<<"2", "0", "2", "4">>))>>),
      Element(Namespace \o UrlName, <<Leaf(Namespace \o LocName, None), LocElement(PostUrl)>>),
      Element(Namespace \o ImageName, <<LocElement(PostUrl)>>),
      Element(UrlName, <<Leaf(LastmodName, None), Leaf(LocName, Some(PaddedText))>>),
      Element(Namespace \o SitemapName, <<Leaf(Namespace \o LocName, Some(<<" ", "\n">>))>>)>>

\* A urlset with a loc urlparse raises on, between pages it parses
BracketDoc ==
    <<UrlEntry(ParamsUrl), UrlEntry(Ipv6Url), UrlEntry(BracketUrl), UrlEntry(PostUrl)>>

\* What the archive holds
ArchiveDoc == <<UrlEntry(ArchiveHomeUrl), SitemapEntry(IndexUrl)>>

Exchange(error, status, ctype, gzipped, xml) ==
    [error |-> error, status_code |-> status, content_type |-> ctype,
     gzipped |-> gzipped, xml |-> xml]

Plain(doc) == Exchange(FALSE, 200, "application/xml", FALSE, Some(doc))

ResponseNames ==
    {"net_error", "not_found", "bad_xml", "index", "urlset", "cycle", "mixed",
     "brackets", "gz_typed", "gz_untyped"}

Response(name) ==
    CASE name = "net_error"  -> Exchange(TRUE, 0, "", FALSE, None)
      [] name = "not_found"  -> Exchange(FALSE, 404, "text/html", FALSE, None)
      [] name = "bad_xml"    -> Exchange(FALSE, 200, "text/html", FALSE, None)
      [] name = "index"      -> Plain(IndexDoc)
      [] name = "urlset"     -> Plain(UrlsetDoc)
      [] name = "cycle"      -> Plain(CycleDoc)
      [] name = "mixed"      -> Plain(MixedDoc)
      [] name = "brackets"   -> Plain(BracketDoc)
      [] name = "gz_typed"   -> Exchange(FALSE, 200, "application/x-gzip", TRUE, Some(ArchiveDoc))
      [] name = "gz_untyped" -> Exchange(FALSE, 200, "application/octet-stream", TRUE, Some(ArchiveDoc))

\* The URLs that may serve a document; every other URL answers 404
WebUrls == {IndexUrl, Sitemap1Url, ArchiveUrl}

SeedUrls == {IndexUrl, Sitemap1Url}

\* Longest seed list
MaxSeeds == 2

\* The most iterations of the while loop a run on these inputs makes (TypeOK)
MaxSteps == 10

SeedLists == UNION {[1..n -> SeedUrls] : n \in 1..MaxSeeds}

\* Typed text urlparse raises on
BracketInput == <<"h", "t", "t", "p", ":", "/", "/", "[", "a">>

\* What the user types in the text box: a URL with its scheme, a host with a
\* path and no scheme, and a URL with an unclosed bracket
UrlInputs ==
    {HomeUrl, <<"a", ".", "c", "o", "m", "/", "s", "h", "o", "p", "/", "x">>, BracketInput}

DirectiveWord == <<"S", "i", "t", "e", "m", "a", "p", ":", " ">>

DisallowLine == <<"D", "i", "s", "a", "l", "l", "o", "w", ":", " ", "/", "t", "m", "p">>

\* A robots.txt with one directive line for each seed of the list, in order
DirectiveBody(seeds) ==
    Join(<<DisallowLine>> \o [i \in 1..Len(seeds) |-> DirectiveWord \o seeds[i]], "\n")

\* A robots.txt with no directive: a comment, a rule that holds the word,
\* and a line whose colon does not follow the word directly
NoDirectiveBody ==
    <<"#", " ", "S", "i", "t", "e", "m", "a", "p", ":", " ", "x", "\n">>
    \o DisallowLine \o <<"/", "s", "i", "t", "e", "m", "a", "p", ":", "\n">>
    \o <<"S", "i", "t", "e", "m", "a", "p", " ", ":", " ", "x">>

\* A robots.txt whose one directive has nothing after the colon
BlankDirectiveBody == DisallowLine \o <<"\r", "\n", "S", "i", "t", "e", "m", "a", "p", ":", " ", "\t">>

\* A blank directive, then an indented upper-case one with a padded value
BlankThenIndexBody ==
    <<"s", "i", "t", "e", "m", "a", "p", ":", "\r", "\n",
      " ", "S", "I", "T", "E", "M", "A", "P", ":", " ", " ">> \o IndexUrl \o <<" ", "\r", "\n">>

RobotsExchange(error, status, text) ==
    [error |-> error, status_code |-> status, text |-> text]

\* Answers of robots.txt that hold directives: each list of seeds, and the
\* edge cases of the scan
SeedExchanges ==
    {RobotsExchange(FALSE, 200, DirectiveBody(seeds)) : seeds \in SeedLists}
    \cup {RobotsExchange(FALSE, 200, BlankDirectiveBody),
          RobotsExchange(FALSE, 200, BlankThenIndexBody)}

\* Answers that give no directive: a body without one, a transport error and
\* an error page that holds a directive
NoSeedExchanges ==
    {RobotsExchange(FALSE, 200, NoDirectiveBody),
     RobotsExchange(TRUE, 0, <<>>),
     RobotsExchange(FALSE, 404, DirectiveBody(<<IndexUrl>>))}

RobotsExchanges == SeedExchanges \cup NoSeedExchanges

\* urljoin(HomeUrl, "sitemap.xml"): where the fallback seed of HomeUrl is
FallbackUrl ==
    <<"h", "t", "t", "p", "s", ":", "/", "/", "a", ".", "c", "o", "m", "/",
      "s", "i", "t", "e", "m", "a", "p", ".", "x", "m", "l">>

\* The webs of the runs that robots.txt seeds: any answer at each of WebUrls,
\* nothing at the fallback URL
SeededWebs ==
    {[u \in WebUrls \cup {FallbackUrl} |-> IF u = FallbackUrl THEN "not_found" ELSE w[u]] :
        w \in [WebUrls -> ResponseNames]}

\* The webs of the runs that start at the fallback seed: any answer at the
\* fallback URL, nothing elsewhere
FallbackWebs ==
    {[u \in WebUrls \cup {FallbackUrl} |-> IF u = FallbackUrl THEN r ELSE "not_found"] :
        r \in ResponseNames}

\* The inputs of the runs, <<text typed, answer of robots.txt, web>>.  The
\* text typed bears on the seeds through the fallback alone, so it varies
\* where the answer gives no directive.
EntryInputs ==
    ({HomeUrl} \X SeedExchanges \X SeededWebs)
    \cup (UrlInputs \X NoSeedExchanges \X FallbackWebs)

(***************************************************************************)
(* The statements of the loop body                                         *)
(***************************************************************************)

\* Mutant of IsVisited: the visited test is left out
NeverVisited(url, visited) == FALSE

\* current_url in visited_sitemaps
IsVisited(url, visited) == url \in visited

\* Mutant of MarkVisited: the add is left out
ForgetVisited(url, visited) == visited

\* visited_sitemaps.add(current_url)
MarkVisited(url, visited) == visited \cup {url}

\* queue.popleft(): what is left of the queue
PopLeft(q) == Tail(q)

\* Mutant of EnqueueUnvisited: the loc goes to the front of the queue
EnqueueFront(loc, q, visited) ==
    IF loc \notin visited THEN <<loc>> \o q ELSE q

\* Mutant of EnqueueUnvisited: append without the visited test
EnqueueAlways(loc, q, visited) == Append(q, loc)

\* Mutant of EnqueueUnvisited: the queue is replaced, not appended to
EnqueueOverwrite(loc, q, visited) ==
    IF loc \notin visited THEN <<loc>> ELSE q

\* if loc not in visited_sitemaps: queue.append(loc)
EnqueueUnvisited(loc, q, visited) ==
    IF loc \notin visited THEN Append(q, loc) ELSE q

\* Mutant of AddDomain: the `if domain' test is left out
AddDomainUnchecked(domain, domains) == domains \cup {domain}

\* Mutant of AddDomain: the set is assigned, not added to
AddDomainOverwrite(domain, domains) ==
    IF domain # <<>> THEN {domain} ELSE domains

\* if domain: collected_domains.add(domain)
AddDomain(domain, domains) ==
    IF domain # <<>> THEN domains \cup {domain} ELSE domains

\* Mutant of deep_url_policy: a page's domain is not collected
deep_url_policy_no_domains(loc, q, visited, domains) ==
    IF is_sitemap_url(loc)
    THEN [queue |-> EnqueueUnvisited(loc, q, visited), domains |-> domains, raised |-> FALSE]
    ELSE [queue |-> q, domains |-> domains, raised |-> FALSE]

\* The <url> branch of crawler: the queue and the domains after it.  The
\* ValueError of urlparse(loc) is caught there (except: pass), so the branch
\* never raises.
deep_url_policy(loc, q, visited, domains) ==
    IF is_sitemap_url(loc)
    THEN [queue |-> EnqueueUnvisited(loc, q, visited), domains |-> domains, raised |-> FALSE]
    ELSE IF urlparse_raises(loc)
    THEN [queue |-> q, domains |-> domains, raised |-> FALSE]
    ELSE [queue |-> q, domains |-> AddDomain(urlparse_netloc(loc), domains), raised |-> FALSE]

\* Mutant of fast_url_policy: the fast script queues the loc of every <url>
fast_url_policy_following(loc, q, visited, domains) ==
    [queue |-> EnqueueUnvisited(loc, q, visited), domains |-> domains, raised |-> FALSE]

\* Mutant of fast_url_policy: the fast script keeps the deep script's branch
fast_url_policy_recursing(loc, q, visited, domains) ==
    deep_url_policy(loc, q, visited, domains)

\* The <url> branch of fast_crawler: the queue and the domains after it,
\* and whether it raised.  is_homepage(loc) is called outside the try, so
\* the ValueError of its urlparse leaves fast_crawler.
fast_url_policy(loc, q, visited, domains) ==
    IF urlparse_raises(loc)
    THEN [queue |-> q, domains |-> domains, raised |-> TRUE]
    ELSE IF is_homepage(loc)
    THEN [queue |-> q, domains |-> AddDomain(urlparse_netloc(loc), domains), raised |-> FALSE]
    ELSE [queue |-> q, domains |-> domains, raised |-> FALSE]

url_policy(m, loc, q, visited, domains) ==
    IF m = "deep"
    THEN deep_url_policy(loc, q, visited, domains)
    ELSE fast_url_policy(loc, q, visited, domains)

(***************************************************************************)
(* One run of crawler (mode "deep") or fast_crawler (mode "fast")          *)
(***************************************************************************)

VARIABLES
    mode,               \* which script runs
    url_input,          \* the text box, as typed
    robots,             \* the exchange requests.get(robots_url) has
    robots_url,         \* None, or Some(the URL robots.txt was asked at)
    start_sitemaps,     \* the argument of the run, <<>> before the entry has run
    web,                \* what each URL of the web answers, by name
    pc,                 \* "entry" (the UI entry), "loop" (the while test),
                        \* "children" (the for loop), "done" (returned),
                        \* "raised" (an uncaught ValueError ended the script)
    queue,
    visited_sitemaps,
    collected_domains,
    current_url,        \* None before the first popleft
    root,               \* None, or Some(children of the parsed root)
    child_index,        \* the child of root the for loop is at
    tag,                \* the local name of that child's tag
    loc,                \* None, or Some(the stripped text of its first loc)
    processed_count,
    result,             \* None until the run returns
    fetch_log,          \* history: the arguments of fetch_and_parse, in call order
    dequeue_log,        \* history: the URLs popped, in order
    enqueue_log         \* history: the seeds, then the URLs appended, in order

vars ==
    <<mode, url_input, robots, robots_url, start_sitemaps, web, pc, queue, visited_sitemaps, collected_domains,
      current_url, root, child_index, tag, loc, processed_count, result,
      fetch_log, dequeue_log, enqueue_log>>

\* requests.get(url): the exchange the web gives for url
Respond(url) ==
    IF url \in DOMAIN web THEN Response(web[url]) ELSE Response("not_found")

\* tag and loc as the for loop resolves them for child i of the root r; they
\* keep their values when the root has no child i
Resolved(r, i) ==
    IF i <= Len(r[1])
    THEN [tag |-> LocalName(r[1][i].tag), loc |-> findLoc(r[1][i])]
    ELSE [tag |-> tag, loc |-> loc]

\* what one pass of the for loop leaves alone
NextChild ==
    /\ child_index' = child_index + 1
    /\ tag' = Resolved(root, child_index + 1).tag
    /\ loc' = Resolved(root, child_index + 1).loc
    /\ UNCHANGED <<mode, url_input, robots, robots_url, start_sitemaps, web, pc, visited_sitemaps, current_url,
                   root, processed_count, result, fetch_log, dequeue_log>>

Init ==
    /\ mode \in {"deep", "fast"}
    /\ \E input \in EntryInputs :
          url_input = input[1] /\ robots = input[2] /\ web = input[3]
    /\ robots_url = None
    /\ start_sitemaps = <<>>
    /\ pc = "entry"
    /\ queue = <<>>
    /\ visited_sitemaps = {}
    /\ collected_domains = {}
    /\ current_url = None
    /\ root = None
    /\ child_index = 0
    /\ tag = None
    /\ loc = None
    /\ processed_count = 0
    /\ result = None
    /\ fetch_log = <<>>
    /\ dequeue_log = <<>>
    /\ enqueue_log = <<>>

\* The UI entry up to the call of the traversal, and the traversal's own
\* initialisation: queue = deque(start_sitemaps)
Enter ==
    /\ pc = "entry"
    /\ robots_url_of(WithScheme(url_input)) # ValueError
    /\ robots_url' = Some(Apply(robots_url_of, WithScheme(url_input)))
    /\ start_sitemaps' = Apply2(initial_sitemaps, WithScheme(url_input), robots)
    /\ queue' = start_sitemaps'
    /\ enqueue_log' = start_sitemaps'
    /\ pc' = "loop"
    /\ UNCHANGED <<mode, url_input, robots, web, visited_sitemaps, collected_domains,
                   current_url, root, child_index, tag, loc, processed_count, result,
                   fetch_log, dequeue_log>>

\* robots.txt gave directives: they are the seeds
SeedsFromRobots ==
    /\ pc = "entry"
    /\ get_sitemap_from_robots(robots) # <<>>
    /\ Enter

\* if not initial_sitemaps: the fallback is the one seed
SeedsFallback ==
    /\ pc = "entry"
    /\ get_sitemap_from_robots(robots) = <<>>
    /\ Enter

\* robots_url = urljoin(domain_url, "/robots.txt") stands before the try of
\* get_sitemap_from_robots: its ValueError ends the script before any
\* request is made
EntryRaises ==
    /\ pc = "entry"
    /\ robots_url_of(WithScheme(url_input)) = ValueError
    /\ pc' = "raised"
    /\ UNCHANGED <<mode, url_input, robots, robots_url, start_sitemaps, web, queue,
                   visited_sitemaps, collected_domains, current_url, root, child_index,
                   tag, loc, processed_count, result, fetch_log, dequeue_log, enqueue_log>>

\* while queue: popleft
CanPop == pc = "loop" /\ queue # <<>>

\* Mutant of SkipVisited: the visited URL is forgotten, so that a later copy
\* of it is fetched again
SkipVisitedForgetting ==
    /\ CanPop
    /\ IsVisited(Head(queue), visited_sitemaps)
    /\ queue' = PopLeft(queue)
    /\ current_url' = Some(Head(queue))
    /\ visited_sitemaps' = visited_sitemaps \ {Head(queue)}
    /\ dequeue_log' = Append(dequeue_log, Head(queue))
    /\ UNCHANGED <<mode, url_input, robots, robots_url, start_sitemaps, web, pc,
                   collected_domains, root, child_index, tag, loc, processed_count,
                   result, fetch_log, enqueue_log>>

\* popleft of a URL already visited: continue
SkipVisited ==
    /\ CanPop
    /\ IsVisited(Head(queue), visited_sitemaps)
    /\ queue' = PopLeft(queue)
    /\ current_url' = Some(Head(queue))
    /\ dequeue_log' = Append(dequeue_log, Head(queue))
    /\ UNCHANGED <<mode, url_input, robots, robots_url, start_sitemaps, web, pc, visited_sitemaps, collected_domains,
                   root, child_index, tag, loc, processed_count, result, fetch_log, enqueue_log>>

\* Mutant of FetchFailed: the failed URL is put back for a retry
FetchFailedRetry ==
    /\ CanPop
    /\ ~IsVisited(Head(queue), visited_sitemaps)
    /\ fetch_and_parse(Head(queue), Respond(Head(queue))) = None
    /\ queue' = Append(PopLeft(queue), Head(queue))
    /\ current_url' = Some(Head(queue))
    /\ visited_sitemaps' = MarkVisited(Head(queue), visited_sitemaps)
    /\ root' = None
    /\ dequeue_log' = Append(dequeue_log, Head(queue))
    /\ fetch_log' = Append(fetch_log, Head(queue))
    /\ UNCHANGED <<mode, url_input, robots, robots_url, start_sitemaps, web, pc, collected_domains,
                   child_index, tag, loc, processed_count, result, enqueue_log>>

\* popleft of a new URL whose fetch gives None: continue
FetchFailed ==
    /\ CanPop
    /\ ~IsVisited(Head(queue), visited_sitemaps)
    /\ fetch_and_parse(Head(queue), Respond(Head(queue))) = None
    /\ queue' = PopLeft(queue)
    /\ current_url' = Some(Head(queue))
    /\ visited_sitemaps' = MarkVisited(Head(queue), visited_sitemaps)
    /\ root' = None
    /\ dequeue_log' = Append(dequeue_log, Head(queue))
    /\ fetch_log' = Append(fetch_log, Head(queue))
    /\ UNCHANGED <<mode, url_input, robots, robots_url, start_sitemaps, web, pc, collected_domains,
                   child_index, tag, loc, processed_count, result, enqueue_log>>

\* popleft of a new URL whose fetch gives a root: on to its children
FetchParsed ==
    /\ CanPop
    /\ ~IsVisited(Head(queue), visited_sitemaps)
    /\ fetch_and_parse(Head(queue), Respond(Head(queue))) # None
    /\ queue' = PopLeft(queue)
    /\ current_url' = Some(Head(queue))
    /\ visited_sitemaps' = MarkVisited(Head(queue), visited_sitemaps)
    /\ root' = fetch_and_parse(Head(queue), Respond(Head(queue)))
    /\ child_index' = 1
    /\ tag' = Resolved(root', 1).tag
    /\ loc' = Resolved(root', 1).loc
    /\ pc' = "children"
    /\ dequeue_log' = Append(dequeue_log, Head(queue))
    /\ fetch_log' = Append(fetch_log, Head(queue))
    /\ UNCHANGED <<mode, url_input, robots, robots_url, start_sitemaps, web, collected_domains,
                   processed_count, result, enqueue_log>>

HasChild == pc = "children" /\ child_index <= Len(root[1])

\* The history of appends after a pass that leaves the queue as q
Logged(q) ==
    IF q = queue THEN enqueue_log ELSE Append(enqueue_log, loc[1])

\* The queue and the domains after the <url> branch of the running script
UrlChildEffect ==
    url_policy(mode, loc[1], queue, visited_sitemaps, collected_domains)

\* if not loc: continue
NoLocChild ==
    /\ HasChild
    /\ NotLoc(loc)
    /\ NextChild
    /\ UNCHANGED <<queue, collected_domains, enqueue_log>>

\* tag == 'sitemap'
SitemapChild ==
    /\ HasChild
    /\ ~NotLoc(loc)
    /\ tag = SitemapName
    /\ queue' = EnqueueUnvisited(loc[1], queue, visited_sitemaps)
    /\ enqueue_log' = Logged(EnqueueUnvisited(loc[1], queue, visited_sitemaps))
    /\ NextChild
    /\ UNCHANGED collected_domains

\* tag == 'url', and is_homepage(loc) raises: the ValueError leaves
\* fast_crawler and ends the script
UrlChildRaises ==
    /\ HasChild
    /\ ~NotLoc(loc)
    /\ tag = UrlName
    /\ UrlChildEffect.raised
    /\ pc' = "raised"
    /\ UNCHANGED <<mode, url_input, robots, robots_url, start_sitemaps, web, queue,
                   visited_sitemaps, collected_domains, current_url, root, child_index,
                   tag, loc, processed_count, result, fetch_log, dequeue_log, enqueue_log>>

\* tag == 'url'
UrlChild ==
    /\ HasChild
    /\ ~NotLoc(loc)
    /\ tag = UrlName
    /\ ~UrlChildEffect.raised
    /\ queue' = UrlChildEffect.queue
    /\ collected_domains' = UrlChildEffect.domains
    /\ enqueue_log' = Logged(UrlChildEffect.queue)
    /\ NextChild

\* any other tag
OtherChild ==
    /\ HasChild
    /\ ~NotLoc(loc)
    /\ tag \notin {SitemapName, UrlName}
    /\ NextChild
    /\ UNCHANGED <<queue, collected_domains, enqueue_log>>

\* the for loop is over: processed_count += 1
DocumentDone ==
    /\ pc = "children"
    /\ child_index > Len(root[1])
    /\ processed_count' = processed_count + 1
    /\ pc' = "loop"
    /\ UNCHANGED <<mode, url_input, robots, robots_url, start_sitemaps, web, queue, visited_sitemaps, collected_domains,
                   current_url, root, child_index, tag, loc, result,
                   fetch_log, dequeue_log, enqueue_log>>

\* the queue is empty: return sorted(list(collected_domains))
Return ==
    /\ pc = "loop"
    /\ queue = <<>>
    /\ result' = Some(sorted(collected_domains))
    /\ pc' = "done"
    /\ UNCHANGED <<mode, url_input, robots, robots_url, start_sitemaps, web, queue, visited_sitemaps, collected_domains,
                   current_url, root, child_index, tag, loc, processed_count,
                   fetch_log, dequeue_log, enqueue_log>>

Next ==
    \/ EntryRaises
    \/ SeedsFromRobots
    \/ SeedsFallback
    \/ SkipVisited
    \/ FetchFailed
    \/ FetchParsed
    \/ NoLocChild
    \/ SitemapChild
    \/ UrlChild
    \/ UrlChildRaises
    \/ OtherChild
    \/ DocumentDone
    \/ Return

Spec == Init /\ [][Next]_vars

\* The runs the liveness check starts from: every typed text on its fallback
\* web, and on every seeded web the run that robots.txt seeds with both seed
\* URLs
FairInit ==
    /\ Init
    /\ robots \in NoSeedExchanges
                    \cup {RobotsExchange(FALSE, 200, DirectiveBody(<<IndexUrl, Sitemap1Url>>))}

\* The run is one sequential loop: a step that can be taken is taken.
FairSpec == FairInit /\ [][Next]_vars /\ WF_vars(Next)

TypeOK ==
    /\ pc \in {"entry", "loop", "children", "done", "raised"}
    /\ visited_sitemaps = Range(fetch_log)
    /\ Len(dequeue_log) <= MaxSteps

(***************************************************************************)
(* Vocabulary of the properties                                            *)
(***************************************************************************)

\* The netloc the scripts take of a <url> loc: none where urlparse raises
DomainOf(l) == IF urlparse_raises(l) THEN <<>> ELSE urlparse_netloc(l)

\* is_homepage(l) returns True
HomepageLoc(l) == ~urlparse_raises(l) /\ is_homepage(l)

\* What a fetch of url gives on this web
ParsedRoot(url) == fetch_and_parse(url, Respond(url))

\* The entries of the document at url that have a loc ({} when the fetch fails)
EntriesAt(url) ==
    IF ParsedRoot(url) = None THEN {}
    ELSE {e \in Range(ParsedRoot(url)[1]) : ~NotLoc(findLoc(e))}

SitemapLocsAt(url) ==
    {findLoc(e)[1] : e \in {x \in EntriesAt(url) : LocalName(x.tag) = SitemapName}}

UrlLocsAt(url) ==
    {findLoc(e)[1] : e \in {x \in EntriesAt(url) : LocalName(x.tag) = UrlName}}

\* The locs of the document at url that mode m follows
Followed(m, url) ==
    SitemapLocsAt(url) \cup
    (IF m = "deep" THEN {l \in UrlLocsAt(url) : is_sitemap_url(l)} ELSE {})

RECURSIVE Closure(_, _)
Closure(m, R) ==
    LET N == R \cup UNION {Followed(m, u) : u \in R}
    IN  IF N = R THEN R ELSE Closure(m, N)

\* The URLs reachable from the seeds in mode m
Reachable(m) == Closure(m, Range(start_sitemaps))

NoDuplicates(s) == \A i, j \in 1..Len(s) : s[i] = s[j] => i = j

Returned == pc = "done"

\* The run of the scenario: the index lists sitemap1, which lists two pages
Scenario ==
    /\ start_sitemaps = <<IndexUrl>>
    /\ web[IndexUrl] = "index"
    /\ web[Sitemap1Url] = "urlset"

DomainA == <<"a", ".", "c", "o", "m">>

DomainBlogA == <<"b", "l", "o", "g", ".", "a", ".", "c", "o", "m">>

\* The for loop is at a child that has a loc
AtLocChild == HasChild /\ ~NotLoc(loc)

\* This step is one pass of the for loop
ChildStep == HasChild /\ child_index' = child_index + 1

(***************************************************************************)
(* C1..C10                                                                 *)
(***************************************************************************)

\* C1: in a run of either mode, on any web (cyclic ones included),
\* fetch_and_parse is called at most once for each URL.
C1_FetchedAtMostOnce == NoDuplicates(fetch_log)

\* C1 witness: a finished run on a web where the index and sitemap1 list each
\* other and themselves, both fetched.
C1_Witness ==
    /\ Returned
    /\ web[IndexUrl] = "cycle"
    /\ web[Sitemap1Url] = "cycle"
    /\ {IndexUrl, Sitemap1Url} \subseteq Range(fetch_log)

\* The script ended before its traversal began (the entry raised)
C2_NoTraversal == pc = "raised" /\ robots_url = None

\* C2: a traversal of either script, once it has its seeds, eventually finds
\* the queue empty and returns its result.  fast_crawler does not on a
\* document with a <url> loc that urlparse raises on: is_homepage(loc) is
\* called outside the try, the ValueError ends the script, the queue is left
\* as it is and nothing is returned; so this is violated.
C2_Terminates == <>(Returned \/ C2_NoTraversal)

\* C2 witness: fast_crawler was ended by the ValueError of is_homepage at a
\* <url> loc with an unclosed bracket, with a seed still in the queue, the
\* domains collected so far lost and no result.
C2_Witness ==
    /\ pc = "raised"
    /\ mode = "fast"
    /\ loc = Some(BracketUrl)
    /\ queue # <<>>
    /\ collected_domains # {}
    /\ result = None

\* C3 as claimed: the iterations of the while loop number at most the distinct
\* URLs met (seeds and URLs ever enqueued).
C3_IterationsBoundedByDistinct ==
    Len(dequeue_log) <= Cardinality(Range(enqueue_log))

\* C3 amended: the iterations that get past the visited test (the fetches)
\* number at most the distinct URLs met, and the iterations number at most
\* the seeds plus the appends, duplicates counted.
C3_FetchesBoundedByDistinct ==
    /\ Len(fetch_log) <= Cardinality(Range(enqueue_log))
    /\ Len(dequeue_log) <= Len(enqueue_log)

\* C3 witness: a finished run with more iterations than distinct URLs.
C3_Witness ==
    /\ Returned
    /\ Len(dequeue_log) > Cardinality(Range(enqueue_log))
    /\ Len(fetch_log) = Cardinality(Range(enqueue_log))

\* A step that pops a new URL whose fetch fails
C4_FailedFetchStep ==
    /\ pc = "loop"
    /\ queue # <<>>
    /\ fetch_log' = Append(fetch_log, Head(queue))
    /\ ParsedRoot(Head(queue)) = None

\* C4: a failed fetch leaves the domains and the rest of the queue as they
\* were, the URL is in the visited set, the run goes on with the next queue
\* item, and a URL whose fetch failed is fetched once only and stays visited.
C4_FailureAbandonsUrl ==
    /\ [][C4_FailedFetchStep =>
            /\ collected_domains' = collected_domains
            /\ queue' = Tail(queue)
            /\ Head(queue) \in visited_sitemaps'
            /\ pc' = "loop"]_vars
    /\ [](\A i \in 1..Len(fetch_log) :
            ParsedRoot(fetch_log[i]) = None =>
                /\ fetch_log[i] \in visited_sitemaps
                /\ \A j \in 1..Len(fetch_log) : fetch_log[j] = fetch_log[i] => j = i)

\* C4 witness: a finished run in which a fetch failed, the failed URL was
\* popped again later, and a later fetch succeeded.
C4_Witness ==
    /\ Returned
    /\ \E i \in 1..Len(fetch_log) :
         /\ ParsedRoot(fetch_log[i]) = None
         /\ \E j \in (i + 1)..Len(fetch_log) : ParsedRoot(fetch_log[j]) # None
         /\ Cardinality({k \in 1..Len(dequeue_log) : dequeue_log[k] = fetch_log[i]}) > 1

\* The for loop of the deep script is at a <url> child that has a loc
C5_DeepUrlChild == mode = "deep" /\ AtLocChild /\ tag = UrlName

\* C5 as claimed: the loc is enqueued if is_sitemap_url holds and it is not
\* visited; in every other case its netloc, when not empty, is added to the
\* domains.
C5_DeepElseAddsDomain ==
    [][C5_DeepUrlChild /\ ChildStep =>
        LET u == loc[1]
        IN  IF is_sitemap_url(u) /\ u \notin visited_sitemaps
            THEN queue' = Append(queue, u)
            ELSE DomainOf(u) # <<>> =>
                    DomainOf(u) \in collected_domains']_vars

\* C5 amended: the loc is enqueued exactly if is_sitemap_url holds and it is
\* not visited; its netloc, when not empty, is added to the domains exactly if
\* is_sitemap_url does not hold; a loc with is_sitemap_url that is already
\* visited changes neither the queue nor the domains.
C5_DeepUrlPolicy ==
    [][C5_DeepUrlChild /\ ChildStep =>
        LET u == loc[1]
        IN  /\ queue' = IF is_sitemap_url(u) /\ u \notin visited_sitemaps
                        THEN Append(queue, u) ELSE queue
            /\ collected_domains' =
                  IF ~is_sitemap_url(u) /\ DomainOf(u) # <<>>
                  THEN collected_domains \cup {DomainOf(u)}
                  ELSE collected_domains
            /\ visited_sitemaps' = visited_sitemaps]_vars

\* C5 witness: the deep script is at a <url> child whose loc passes
\* is_sitemap_url, is already visited, and has a netloc not among the domains.
C5_Witness ==
    /\ C5_DeepUrlChild
    /\ is_sitemap_url(loc[1])
    /\ loc[1] \in visited_sitemaps
    /\ DomainOf(loc[1]) # <<>>
    /\ DomainOf(loc[1]) \notin collected_domains

\* The for loop of the fast script is at a <url> child that has a loc
C6_FastUrlChild == mode = "fast" /\ AtLocChild /\ tag = UrlName

\* C6: in the fast script a <url> child never changes the queue; it adds the
\* netloc to the domains exactly when is_homepage holds and the netloc is not
\* empty, and changes nothing otherwise.  So every URL that ever was in the
\* fast queue is a seed or the loc of a <sitemap> child of a fetched document.
C6_FastUrlIsTerminal ==
    /\ [][C6_FastUrlChild /\ ChildStep =>
            LET u == loc[1]
            IN  /\ queue' = queue
                /\ visited_sitemaps' = visited_sitemaps
                /\ collected_domains' =
                      IF HomepageLoc(u) /\ DomainOf(u) # <<>>
                      THEN collected_domains \cup {DomainOf(u)}
                      ELSE collected_domains]_vars
    /\ [](mode = "fast" =>
            Range(enqueue_log) \subseteq
                Range(start_sitemaps) \cup UNION {SitemapLocsAt(u) : u \in Range(fetch_log)})

\* C6 witness: the fast script has passed a <url> child whose loc ends in .xml
\* (the child before the current one) and the queue is empty.
C6_Witness ==
    /\ mode = "fast"
    /\ pc = "children"
    /\ child_index > 1
    /\ LET prev == root[1][child_index - 1]
       IN  /\ LocalName(prev.tag) = UrlName
           /\ ~NotLoc(findLoc(prev))
           /\ is_sitemap_url(findLoc(prev)[1])
           /\ findLoc(prev)[1] \notin visited_sitemaps
    /\ queue = <<>>

\* C7: no step removes an element from the visited set or from the domains.
C7_SetsOnlyGrow ==
    [][/\ visited_sitemaps \subseteq visited_sitemaps'
       /\ collected_domains \subseteq collected_domains']_vars

\* C7 witness: both sets hold two elements or more.
C7_Witness ==
    /\ Cardinality(visited_sitemaps) >= 2
    /\ Cardinality(collected_domains) >= 2

\* The domains the deep script is to return: the netlocs, not empty, of the
\* <url> locs failing is_sitemap_url, over the documents reachable in deep mode
C8_DeepDomains ==
    {DomainOf(l) :
        l \in {x \in UNION {UrlLocsAt(u) : u \in Reachable("deep")} : ~is_sitemap_url(x)}}
    \ {<<>>}

\* C8: when crawler returns, the domains returned are exactly C8_DeepDomains;
\* on the scenario they are a.com and blog.a.com.
C8_DeepResult ==
    (Returned /\ mode = "deep") =>
        /\ Range(result[1]) = C8_DeepDomains
        /\ Scenario => result[1] = <<DomainA, DomainBlogA>>

\* C8 witness: crawler returned on the scenario.
C8_Witness == Returned /\ mode = "deep" /\ Scenario /\ Len(result[1]) = 2

\* The domains the fast script is to return: the netlocs, not empty, of the
\* <url> locs whose path is empty or "/", over the documents reachable by
\* <sitemap> locs alone
C9_FastDomains ==
    {DomainOf(l) :
        l \in {x \in UNION {UrlLocsAt(u) : u \in Reachable("fast")} :
                    urlparse_path(x) \in {<<>>, <<"/">>}}}
    \ {<<>>}

\* C9: when fast_crawler returns, the domains returned are exactly
\* C9_FastDomains; on the scenario they are a.com alone.
C9_FastResult ==
    (Returned /\ mode = "fast") =>
        /\ Range(result[1]) = C9_FastDomains
        /\ Scenario => result[1] = <<DomainA>>

\* C9 witness: fast_crawler returned on the scenario.
C9_Witness == Returned /\ mode = "fast" /\ Scenario /\ Len(result[1]) = 1

\* C10: a <sitemap> child with a loc is enqueued if and only if the loc is
\* not visited at that moment; no step of the loop appends a visited URL to
\* the queue (the entry fills the queue with the seeds, nothing visited yet); a
\* document that lists itself is not enqueued again.
C10_EnqueueOnlyUnvisited ==
    [][/\ (AtLocChild /\ tag = SitemapName /\ ChildStep) =>
             queue' = IF loc[1] \notin visited_sitemaps
                      THEN Append(queue, loc[1]) ELSE queue
       /\ (pc # "entry" /\ Len(queue') > Len(queue)) =>
             /\ queue' = Append(queue, queue'[Len(queue')])
             /\ queue'[Len(queue')] \notin visited_sitemaps
       /\ (AtLocChild /\ ChildStep /\ loc[1] = current_url[1]) =>
             queue' = queue]_vars

\* C10 witness: the loop has passed a <sitemap> child that lists the document
\* being read (the child before the current one), and one that was enqueued.
C10_Witness ==
    /\ pc = "children"
    /\ child_index > 2
    /\ \E i \in 1..(child_index - 1) :
          /\ LocalName(root[1][i].tag) = SitemapName
          /\ findLoc(root[1][i]) = current_url
    /\ \E i \in 1..(child_index - 1) :
          /\ LocalName(root[1][i].tag) = SitemapName
          /\ findLoc(root[1][i])[1] \in Range(queue)

(***************************************************************************)
(* C11..C19                                                                *)
(***************************************************************************)

\* C11: the sequence a run returns holds exactly the domains collected, each
\* once, none of them the empty string, in strictly increasing order.
C11_ResultSortedDistinct ==
    Returned =>
        /\ Range(result[1]) = collected_domains
        /\ NoDuplicates(result[1])
        /\ <<>> \notin Range(result[1])
        /\ \A i \in 1..(Len(result[1]) - 1) : StrLess(result[1][i], result[1][i + 1])

\* C11 witness: a run returned three domains or more after it met a <url>
\* loc with no netloc and met one domain under several locs.
C11_Witness ==
    /\ Returned
    /\ Len(result[1]) >= 3
    /\ \E u \in Range(fetch_log) : RelativeUrl \in UrlLocsAt(u)
    /\ \E u, v \in Range(fetch_log) :
          /\ u # v
          /\ HomeUrl \in UrlLocsAt(u)
          /\ Strip(PaddedText) \in UrlLocsAt(v)

\* The entry has run: the seeds are with the traversal
SeedsResolved == pc # "entry" /\ robots_url # None

\* The robots.txt fetch failed: requests.get raised, or the status is not 200
RobotsFailed == robots.error \/ robots.status_code # 200

\* The lines of the robots.txt body that are sitemap: directives, in file order
DirectiveLines == SelectSeq(splitlines(robots.text), IsDirective)

\* The fallback was due: the fetch failed or the body holds no directive line
FallbackDue == RobotsFailed \/ DirectiveLines = <<>>

FallbackOfShop ==
    <<"h", "t", "t", "p", "s", ":", "/", "/", "a", ".", "c", "o", "m", "/", "s", "h", "o", "p", "/",
      "s", "i", "t", "e", "m", "a", "p", ".", "x", "m", "l">>

\* The state the entry leaves: the traversal is about to test its queue for
\* the first time
C12_SeedsJustHanded == pc = "loop" /\ dequeue_log = <<>>

\* The seeds are what C12 says they are for this typed URL and this answer
C12_SeedsAsClaimed ==
    /\ FallbackDue =>
          /\ start_sitemaps = <<Apply2(urljoin, WithScheme(url_input), SitemapXml)>>
          /\ start_sitemaps = IF url_input = HomeUrl
                              THEN <<FallbackUrl>> ELSE <<FallbackOfShop>>
    /\ ~FallbackDue =>
          /\ Len(start_sitemaps) = Len(DirectiveLines)
          /\ \A i \in 1..Len(DirectiveLines) :
                start_sitemaps[i] = DirectiveValue(DirectiveLines[i])
    /\ \A seeds \in SeedLists :
          (~RobotsFailed /\ robots.text = DirectiveBody(seeds)) => start_sitemaps = seeds

\* C12: seed resolution never aborts the run: the entry always hands a seed
\* list over, and it is never empty; when the robots.txt fetch failed or its
\* body holds no directive line it is the one fallback seed, the typed URL
\* joined with sitemap.xml; otherwise it is the values of the directive
\* lines, one seed for each line, no fallback added; and the seeds stay as
\* handed over.  Both scripts abort on typed text that urlparse raises on
\* (urljoin before the try of get_sitemap_from_robots), so this is violated.
C12_SeedsNeverEmpty ==
    /\ [](SeedsResolved => start_sitemaps # <<>>)
    /\ [](C12_SeedsJustHanded => (queue = start_sitemaps /\ C12_SeedsAsClaimed))
    /\ [][pc = "entry" => pc' = "loop"]_vars
    /\ [][pc # "entry" => start_sitemaps' = start_sitemaps]_vars

\* C12 witness: the text typed has an unclosed bracket; the script was ended
\* by the ValueError of urljoin(domain_url, "/robots.txt"), which stands
\* before the try of get_sitemap_from_robots: robots.txt was not asked for,
\* no seed was resolved and no traversal began.
C12_Witness ==
    /\ pc = "raised"
    /\ url_input = BracketInput
    /\ robots_url = None
    /\ start_sitemaps = <<>>
    /\ fetch_log = <<>>

DomainC == <<"c", ".", "c", "o", "m">>

\* The <url> locs of the documents this run has fetched
C13_FetchedUrlLocs == UNION {UrlLocsAt(u) : u \in Range(fetch_log)}

\* The domains the fast script collects from homepages that fail
\* is_sitemap_url, for the seeds and the web of this run
C13_FastPageDomains ==
    {DomainOf(l) :
        l \in {x \in UNION {UrlLocsAt(u) : u \in Reachable("fast")} :
                    HomepageLoc(x) /\ ~is_sitemap_url(x)}}
    \ {<<>>}

\* C13 as claimed: for the same seeds and the same web, every domain the fast
\* script returns is among those the deep script returns (C8_DeepDomains and
\* C9_FastDomains are what the two scripts return, by C8 and C9).
C13_DeepRecallsFast ==
    /\ (Returned /\ mode = "fast") => Range(result[1]) \subseteq C8_DeepDomains
    /\ (Returned /\ mode = "deep") => C9_FastDomains \subseteq Range(result[1])

\* C13 amended: a domain the fast script returns is among those the deep
\* script returns unless every homepage loc it came from passes
\* is_sitemap_url (the deep script enqueues such a loc and takes no domain
\* from it); the domains of the homepages that fail is_sitemap_url are all
\* in the deep result.
C13_DeepRecallsFastPages ==
    /\ (Returned /\ mode = "fast") =>
            \A d \in Range(result[1]) :
                \/ d \in C8_DeepDomains
                \/ \A l \in C13_FetchedUrlLocs :
                        (HomepageLoc(l) /\ DomainOf(l) = d) => is_sitemap_url(l)
    /\ (Returned /\ mode = "deep") => C13_FastPageDomains \subseteq Range(result[1])

\* C13 witness: the fast script returned c.com, taken from a homepage whose
\* query holds the word sitemap, and a.com; on the same seeds and web the
\* deep script returns a.com and not c.com.
C13_Witness ==
    /\ Returned
    /\ mode = "fast"
    /\ QueryUrl \in C13_FetchedUrlLocs
    /\ {DomainA, DomainC} \subseteq Range(result[1])
    /\ DomainA \in C8_DeepDomains
    /\ DomainC \notin C8_DeepDomains

\* The rule of C14 as claimed: the suffixes are tested on the loc as given,
\* the word on the lowercased loc
C14_AsGiven(u) ==
    EndsWith(u, DotXml) \/ EndsWith(u, DotXmlGz) \/ Contains(Lower(u), SitemapWord)

\* The rule of C14 amended: the three tests are made on the lowercased loc
C14_Folded(u) ==
    \/ EndsWith(Lower(u), DotXml)
    \/ EndsWith(Lower(u), DotXmlGz)
    \/ Contains(Lower(u), SitemapWord)

\* C14 as claimed: is_sitemap_url(loc) holds if and only if loc as given ends
\* with .xml or .xml.gz or the lowercased loc contains sitemap; the deep
\* script enqueues a <url> loc exactly when the rule holds and the loc is not
\* visited.
C14_SuffixAsGiven ==
    [][C5_DeepUrlChild /\ ChildStep =>
        LET u == loc[1]
        IN  /\ is_sitemap_url(u) <=> C14_AsGiven(u)
            /\ (queue' = Append(queue, u)) <=> (C14_AsGiven(u) /\ u \notin visited_sitemaps)]_vars

\* C14 amended: is_sitemap_url(loc) holds if and only if the lowercased loc
\* ends with .xml or .xml.gz or contains sitemap; the deep script enqueues a
\* <url> loc exactly when the rule holds and the loc is not visited.
C14_SuffixFolded ==
    [][C5_DeepUrlChild /\ ChildStep =>
        LET u == loc[1]
        IN  /\ is_sitemap_url(u) <=> C14_Folded(u)
            /\ (queue' = Append(queue, u)) <=> (C14_Folded(u) /\ u \notin visited_sitemaps)]_vars

\* C14 witness: the deep script has passed a <url> child whose loc ends with
\* .XML.gz, in upper case, and does not hold the word; the loc is the last of
\* the queue.
C14_Witness ==
    /\ mode = "deep"
    /\ pc = "children"
    /\ child_index > 1
    /\ LocalName(root[1][child_index - 1].tag) = UrlName
    /\ findLoc(root[1][child_index - 1]) = Some(ArchiveUrl)
    /\ ~C14_AsGiven(ArchiveUrl)
    /\ ~Contains(Lower(ArchiveUrl), SitemapWord)
    /\ queue # <<>>
    /\ queue[Len(queue)] = ArchiveUrl

\* The place of the first copy of u in the history of the queue's entries
C15_FirstEntry(u) ==
    CHOOSE i \in 1..Len(enqueue_log) :
        enqueue_log[i] = u /\ \A j \in 1..(i - 1) : enqueue_log[j] # u

\* C15: the queue is first in, first out: what has been popped and what is
\* still queued are, in this order, the seeds and the appends in their order
\* of entry; URLs are fetched in the order of their first entry, so every
\* seed fetched is fetched before any URL that is not a seed; and the seeds
\* robots.txt gives are its directive values in file order.
C15_FetchedInEntryOrder ==
    /\ enqueue_log = dequeue_log \o queue
    /\ \A i, j \in 1..Len(fetch_log) :
          i < j => C15_FirstEntry(fetch_log[i]) < C15_FirstEntry(fetch_log[j])
    /\ \A i, j \in 1..Len(fetch_log) :
          (/\ fetch_log[i] \in Range(start_sitemaps)
           /\ fetch_log[j] \notin Range(start_sitemaps)) => i < j
    /\ (C12_SeedsJustHanded /\ ~FallbackDue) =>
          /\ start_sitemaps = [i \in 1..Len(DirectiveLines) |-> DirectiveValue(DirectiveLines[i])]
          /\ robots.text = BlankThenIndexBody => start_sitemaps = <<<<>>, IndexUrl>>
          /\ \A seeds \in SeedLists :
                robots.text = DirectiveBody(seeds) => start_sitemaps = seeds

\* C15 witness: robots.txt named sitemap1 before the index; the run fetched
\* them in that order, then a URL that sitemap1 listed after it had listed
\* the index and itself, and returned.
C15_Witness ==
    /\ Returned
    /\ start_sitemaps = <<Sitemap1Url, IndexUrl>>
    /\ web[Sitemap1Url] = "cycle"
    /\ Len(fetch_log) = 3
    /\ fetch_log = <<Sitemap1Url, IndexUrl, ArchiveUrl>>
    /\ Len(enqueue_log) > Len(fetch_log)

\* How many times u is in the sequence s
C16_Copies(s, u) == Cardinality({i \in 1..Len(s) : s[i] = u})

\* C16: when the URL at the head of the queue is already visited, the step
\* that pops it fetches nothing and leaves the visited set, the domains and
\* the rest of the queue as they were; the loop goes on to its next test.
C16_VisitedCopyDiscarded ==
    [][(pc = "loop" /\ queue # <<>> /\ Head(queue) \in visited_sitemaps) =>
            /\ queue' = Tail(queue)
            /\ dequeue_log' = Append(dequeue_log, Head(queue))
            /\ fetch_log' = fetch_log
            /\ visited_sitemaps' = visited_sitemaps
            /\ collected_domains' = collected_domains
            /\ pc' = "loop"]_vars

\* C16 witness: a URL that one document listed twice was appended twice; its
\* first copy was fetched and gave domains; its second copy has just been
\* popped with more URLs still queued, and it was fetched once.
C16_Witness ==
    /\ pc = "loop"
    /\ dequeue_log # <<>>
    /\ queue # <<>>
    /\ collected_domains # {}
    /\ NoDuplicates(start_sitemaps)
    /\ LET u == dequeue_log[Len(dequeue_log)]
       IN  /\ C16_Copies(dequeue_log, u) = 2
           /\ C16_Copies(enqueue_log, u) = 2
           /\ C16_Copies(fetch_log, u) = 1
           /\ u \notin Range(start_sitemaps)

\* The sub-elements of the child the for loop is at
C17_Subs == root[1][child_index].children

\* The places of the loc sub-elements of that child
C17_LocPlaces == {i \in 1..Len(C17_Subs) : SplitLast(C17_Subs[i].tag, "}") = LocName}

\* The text of the first loc sub-element, None when the element is empty
C17_FirstLocText == C17_Subs[CHOOSE i \in C17_LocPlaces : \A j \in C17_LocPlaces : i <= j].text

\* The child has no loc: no loc sub-element, or the first one has no text or
\* white space only
C17_LocAbsent ==
    \/ C17_LocPlaces = {}
    \/ C17_FirstLocText = None
    \/ \A i \in 1..Len(C17_FirstLocText[1]) : C17_FirstLocText[1][i] \in Whitespace

\* The local name of the child's tag is neither sitemap nor url
C17_OtherTag == SplitLast(root[1][child_index].tag, "}") \notin {SitemapName, UrlName}

\* C17: in both scripts the pass of the for loop over a child with no loc, or
\* with a tag that is neither sitemap nor url, leaves the queue, the visited
\* set and the domains as they were; and the pass over a <sitemap> child
\* never changes the domains.
C17_NoLocOrOtherTagIsNoOp ==
    /\ [][(HasChild /\ ChildStep /\ (C17_LocAbsent \/ C17_OtherTag)) =>
            /\ queue' = queue
            /\ visited_sitemaps' = visited_sitemaps
            /\ collected_domains' = collected_domains]_vars
    /\ [][(HasChild /\ ChildStep /\ SplitLast(root[1][child_index].tag, "}") = SitemapName) =>
            collected_domains' = collected_domains]_vars

\* C17 witness: the loop is through with a document whose children include a
\* <url> with no loc, a <url> whose first loc is empty and whose second holds
\* a page, an <image> with a loc, and a <sitemap> whose loc is white space;
\* the page's domain was not collected and no empty URL was queued.
C17_Witness ==
    /\ pc = "children"
    /\ root = Some(MixedDoc)
    /\ child_index = Len(MixedDoc) + 1
    /\ Len(fetch_log) = 1
    /\ DomainBlogA \notin collected_domains
    /\ DomainA \in collected_domains
    /\ <<>> \notin Range(enqueue_log)

\* The URLs the finished run has fetched
C18_Fetched == Range(fetch_log)

\* C18: on the same seeds and the same web, what fast_crawler fetches is a
\* subset of what crawler fetches.  A finished run has fetched exactly the
\* URLs its script reaches from the seeds, so a finished fast run has fetched
\* nothing outside what crawler reaches, and a finished crawler run has
\* fetched all that fast_crawler reaches.
C18_FastFetchesWithinDeep ==
    Returned =>
        /\ C18_Fetched = Reachable(mode)
        /\ mode = "fast" => C18_Fetched \subseteq Reachable("deep")
        /\ mode = "deep" => Reachable("fast") \subseteq C18_Fetched

\* C18 witness: a finished fast run on a web where crawler goes further, by
\* a <url> loc that passes is_sitemap_url.
C18_Witness ==
    /\ Returned
    /\ mode = "fast"
    /\ Len(fetch_log) >= 2
    /\ \E u \in C18_Fetched : \E l \in UrlLocsAt(u) :
           /\ is_sitemap_url(l)
           /\ l \in Reachable("deep")
           /\ l \notin C18_Fetched

\* The line has nothing but white space after its first colon
C19_BlankAfterColon(line) ==
    \A i \in (Find(line, ":", 1) + 1)..Len(line) : line[i] \in Whitespace

\* robots.txt was served, and each of its directive lines is blank after the
\* colon
C19_OnlyBlankDirectives ==
    /\ ~RobotsFailed
    /\ \A i \in 1..Len(DirectiveLines) : C19_BlankAfterColon(DirectiveLines[i])

\* C19: every seed taken from robots.txt is a non-empty URL; a directive line
\* with nothing but white space after its first colon gives no seed and does
\* not keep the entry from falling back to sitemap.xml.  The code appends the
\* stripped value of every directive line, the empty one included, and the
\* entry falls back only on an empty list, so this is violated.
C19_SeedsNonEmpty ==
    SeedsResolved =>
        /\ <<>> \notin Range(start_sitemaps)
        /\ C19_OnlyBlankDirectives =>
              start_sitemaps = <<Apply2(urljoin, WithScheme(url_input), SitemapXml)>>

\* C19 witness: robots.txt held one directive line, blank after the colon;
\* the run took the empty string for its only seed, asked for it, got
\* nothing, and returned no domain although sitemap.xml serves a document.
C19_Witness ==
    /\ Returned
    /\ robots.text = BlankDirectiveBody
    /\ start_sitemaps = <<<<>>>>
    /\ fetch_log = <<<<>>>>
    /\ result = Some(<<>>)

=============================================================================
